---- MODULE Spec2Model ----
(***************************************************************************)
(* ChromeDriverUpdater (chromedriver_autoupdater/__init__.py).             *)
(*                                                                         *)
(* The destination directory holds two files: the driver binary and the    *)
(* sentinel chromedriver_version.  download_or_update fetches the manifest,*)
(* resolves channel and platform, compares the manifest version with the   *)
(* sentinel and, when outdated, removes the old driver, downloads and      *)
(* unpacks the new one into a temporary directory, moves it into the       *)
(* destination, cleans the temporary directory, makes the driver           *)
(* executable and writes the sentinel.  Every statement of the method is   *)
(* one atomic step; every external call (HTTP, zip, filesystem) may fail.  *)
(***************************************************************************)
EXTENDS Integers, Sequences, FiniteSets, TLC

VARIABLES
    server,      \* what the manifest endpoint currently publishes
    sentinel,    \* <dest>/chromedriver_version: NoFile or File(content)
    artifact,    \* <dest>/chromedriver[.exe]:   NoFile or File([ver, mode])
    tmpdirs,     \* ids of the directories made by tempfile.mkdtemp() that exist
    made,        \* number of mkdtemp() calls so far (names are unique)
    calls,       \* per invocation: position and locals of download_or_update
    pre,         \* history: destination as it was when the latest call began
    prev,        \* history: outcome of the caller's previous call
    hazard       \* history: has a call overlapped another / raised after the check

vars == <<server, sentinel, artifact, tmpdirs, made, calls, pre, prev, hazard>>

-----------------------------------------------------------------------------
(* Bounds *)

NumVersions == 2
MaxTemp == 2

Versions == 1..NumVersions

\* The sequential specification has one caller, the concurrent one has two.
SeqProcs == {"a"}
ConcProcs == {"a", "b"}

-----------------------------------------------------------------------------
(* Files *)

NoFile == <<>>
File(content) == <<content>>
Content(f) == f[1]

\* What an interrupted write leaves in the sentinel: an empty or cut-off
\* text, equal to no version string.
Partial == 0

\* requests.codes.ok
codes_ok == 200
HttpStatuses == {200, 503}

\* ChromeDriverUpdater.__versions_url
versions_url == <<"versions", 0>>

\* What the manifest can look like for the configured channel and platform.
ManifestShapes == {"ok", "no_channel", "no_platform"}
Manifests == [version : Versions, shape : ManifestShapes]

NoManifest == [version |-> 0, shape |-> "none"]
NoUrl == <<"none", 0>>
DriverUrl(v) == <<"driver", v>>
Served(url) == url[2]

\* Layout of the downloaded archive: the chromedriver-<platform>/ folder with
\* the driver in it, files at the top level only, or no zip at all.
Layouts == {"nested", "flat", "not_a_zip"}
NotExtracted == "not_extracted"

-----------------------------------------------------------------------------
(* Pure helpers *)

\* __make_request: raises unless the status is requests.codes.ok
make_request_ok(status) == status = codes_ok

\* __get_version_from_channel: versions_list['channels'].get(channel)
get_version_from_channel(m) ==
    IF m.shape = "no_channel" THEN NoManifest ELSE m

\* __get_driver_for_platform: the url of the first matching item, or a raise
get_driver_for_platform(version) ==
    IF version.shape = "no_platform" THEN NoUrl ELSE DriverUrl(version.version)

\* Variant: the sentinel is never consulted.
installed_version_is_outdated_always(file, current_server_version) == TRUE

\* Variant: a missing sentinel counts as up to date.
installed_version_is_outdated_no_is_file(file, current_server_version) ==
    file # NoFile /\ Content(file) # current_server_version

\* __installed_version_is_outdated
installed_version_is_outdated(file, current_server_version) ==
    IF file = NoFile
    THEN TRUE
    ELSE IF Content(file) # current_server_version
         THEN TRUE
         ELSE FALSE

\* Variant: the sentinel keeps its old content.
write_version_to_file_stale(file, version) == file

\* __write_version_to_file: open(..., 'w') and write(version)
write_version_to_file(file, version) == File(version)

\* Top-level entries of the temporary directory after extractall.
\* "moved" is "nested" after the driver was moved out of the folder.
TopLevel(layout) ==
    CASE layout = "nested" -> {"dir"}
      [] layout = "moved"  -> {"dir"}
      [] layout = "flat"   -> {"file"}
      [] OTHER             -> {}

\* __remove_files_and_dir: os.remove on every top-level entry, then
\* os.removedirs; os.remove raises on a directory and suppress(Exception)
\* swallows it, so the directory survives whenever it holds a subdirectory.
\* TRUE when the temporary directory is gone afterwards.
remove_files_and_dir(layout) == "dir" \notin TopLevel(layout)

\* Variant: the old driver is removed before the outdated check.
download_or_update_remove_before_check ==
    << "get_version_from_channel", "get_driver_for_platform",
       "remove_local_driver_file", "installed_version_is_outdated",
       "make_request", "extractall", "rename", "remove_files_and_dir",
       "give_file_execute_permissions", "write_version_to_file" >>

\* Variant: the platform is resolved only after the old driver was removed.
download_or_update_platform_late ==
    << "get_version_from_channel", "installed_version_is_outdated",
       "remove_local_driver_file", "get_driver_for_platform",
       "make_request", "extractall", "rename", "remove_files_and_dir",
       "give_file_execute_permissions", "write_version_to_file" >>

\* Variant: the sentinel is written before the download.
download_or_update_sentinel_first ==
    << "get_version_from_channel", "get_driver_for_platform",
       "installed_version_is_outdated", "remove_local_driver_file",
       "write_version_to_file", "make_request", "extractall", "rename",
       "remove_files_and_dir", "give_file_execute_permissions" >>

\* The statements of download_or_update in program order, with
\* __download_and_unzip_driver_file inlined.
download_or_update ==
    << "get_version_from_channel", "get_driver_for_platform",
       "installed_version_is_outdated", "remove_local_driver_file",
       "make_request", "extractall", "rename", "remove_files_and_dir",
       "give_file_execute_permissions", "write_version_to_file" >>

-----------------------------------------------------------------------------
(* Invocations *)

Idle ==
    [ pc             |-> 0,
      result         |-> "none",
      raised_at      |-> "none",
      error          |-> "none",
      version        |-> NoManifest,
      driver_url     |-> NoUrl,
      outdated       |-> "unchecked",
      temp_path      |-> 0,
      extracted      |-> NotExtracted,
      requests       |-> <<>>,
      log            |-> <<>> ]

Stmt(c) == IF c.pc = 0 THEN "idle" ELSE download_or_update[c.pc]

\* The statement completed: go to the next one, or return
\* UpdaterEndStatus.new_version_downloaded after the last.
Advance(c) ==
    LET d == [c EXCEPT !.log = Append(@, Stmt(c))]
    IN  IF c.pc = Len(download_or_update)
        THEN [d EXCEPT !.pc = 0, !.result = "new_version_downloaded"]
        ELSE [d EXCEPT !.pc = @ + 1]

\* The statement raised: the exception leaves download_or_update.
Raise(c, e) ==
    [c EXCEPT !.pc = 0, !.result = "raised", !.raised_at = Stmt(c), !.error = e]

\* return UpdaterEndStatus.update_not_required
ReturnNotRequired(c) ==
    [c EXCEPT !.pc = 0, !.result = "update_not_required",
              !.log = Append(@, Stmt(c))]

InCall(p) == calls[p].pc # 0

Summary(c) ==
    [ result |-> c.result, version |-> c.version, outdated |-> c.outdated ]

NoteHazard(p, c) ==
    hazard' = [ overlap |-> hazard.overlap,
                failure |-> hazard.failure
                            \/ (c.result = "raised" /\ c.outdated = "yes") ]

-----------------------------------------------------------------------------
(* Initial state *)

Modes == {"0755", "extracted"}
Artifacts == [ver : Versions, mode : Modes]

\* The destination directory exists (checked by __init__).  It is empty, or
\* holds a driver somebody put there, or holds what an earlier successful
\* install left: a driver and the sentinel naming its version.
Init ==
    /\ server \in Manifests
    /\ \/ sentinel = NoFile /\ artifact = NoFile
       \/ sentinel = NoFile /\ \E a \in Artifacts : artifact = File(a)
       \/ \E v \in Versions :
             artifact = File([ver |-> v, mode |-> "0755"]) /\ sentinel = File(v)
    /\ tmpdirs = {}
    /\ made = 0
    /\ calls = [p \in ConcProcs |-> Idle]
    /\ pre = [sentinel |-> sentinel, artifact |-> artifact, tmpdirs |-> {}]
    /\ prev = Summary(Idle)
    /\ hazard = [overlap |-> FALSE, failure |-> FALSE]

-----------------------------------------------------------------------------
(* Actions *)

\* Calls still to make their temporary directory.
Pending == Cardinality({q \in DOMAIN calls : InCall(q) /\ calls[q].temp_path = 0})

\* A caller enters download_or_update.
Enter(p) ==
    /\ ~InCall(p)
    /\ made + Pending < MaxTemp
    /\ calls' = [calls EXCEPT ![p] = [Idle EXCEPT !.pc = 1]]
    /\ pre' = [sentinel |-> sentinel, artifact |-> artifact, tmpdirs |-> tmpdirs]
    /\ prev' = Summary(calls[p])
    /\ hazard' = [hazard EXCEPT
                     !.overlap = @ \/ \E q \in DOMAIN calls : q # p /\ InCall(q)]
    /\ UNCHANGED <<server, sentinel, artifact, tmpdirs, made>>

\* version = self.__get_version_from_channel(); version_number = version['version']
GetVersionFromChannel(p) ==
    /\ Stmt(calls[p]) = "get_version_from_channel"
    /\ \E status \in HttpStatuses, json_ok \in BOOLEAN :
         LET c == [calls[p] EXCEPT !.requests = Append(@, versions_url)]
             v == get_version_from_channel(server)
             d == IF ~make_request_ok(status)
                  THEN Raise(c, "status_code_not_equals_200")
                  ELSE IF ~json_ok
                  THEN Raise(c, "fail_to_make_json")
                  ELSE IF v = NoManifest
                  THEN Raise(c, "channel_not_found")
                  ELSE Advance([c EXCEPT !.version = v])
         IN  /\ calls' = [calls EXCEPT ![p] = d]
             /\ NoteHazard(p, d)
    /\ UNCHANGED <<server, sentinel, artifact, tmpdirs, made, pre, prev>>

\* driver_url = self.__get_driver_for_platform(version)
GetDriverForPlatform(p) ==
    /\ Stmt(calls[p]) = "get_driver_for_platform"
    /\ LET c   == calls[p]
           url == get_driver_for_platform(c.version)
           d   == IF url = NoUrl
                  THEN Raise(c, "build_for_platform_not_found")
                  ELSE Advance([c EXCEPT !.driver_url = url])
       IN  /\ calls' = [calls EXCEPT ![p] = d]
           /\ NoteHazard(p, d)
    /\ UNCHANGED <<server, sentinel, artifact, tmpdirs, made, pre, prev>>

\* if not self.__installed_version_is_outdated(version_number): return ...
CheckOutdated(p) ==
    /\ Stmt(calls[p]) = "installed_version_is_outdated"
    /\ LET c == calls[p]
           d == IF installed_version_is_outdated(sentinel, c.version.version)
                THEN Advance([c EXCEPT !.outdated = "yes"])
                ELSE ReturnNotRequired([c EXCEPT !.outdated = "no"])
       IN  /\ calls' = [calls EXCEPT ![p] = d]
           /\ NoteHazard(p, d)
    /\ UNCHANGED <<server, sentinel, artifact, tmpdirs, made, pre, prev>>

\* self.__remove_local_driver_file(): FileNotFoundError is suppressed, any
\* other OSError of os.remove is not.
RemoveLocalDriverFile(p) ==
    /\ Stmt(calls[p]) = "remove_local_driver_file"
    /\ \E ok \in BOOLEAN :
         LET c == calls[p]
             d == IF artifact = NoFile \/ ok THEN Advance(c) ELSE Raise(c, "os_error")
         IN  /\ artifact # NoFile \/ ok
             /\ artifact' = IF ok THEN NoFile ELSE artifact
             /\ calls' = [calls EXCEPT ![p] = d]
             /\ NoteHazard(p, d)
    /\ UNCHANGED <<server, sentinel, tmpdirs, made, pre, prev>>

\* response = self.__make_request(url)
DownloadRequest(p) ==
    /\ Stmt(calls[p]) = "make_request"
    /\ \E status \in HttpStatuses :
         LET c == [calls[p] EXCEPT !.requests = Append(@, calls[p].driver_url)]
             d == IF make_request_ok(status)
                  THEN Advance(c)
                  ELSE Raise(c, "status_code_not_equals_200")
         IN  /\ calls' = [calls EXCEPT ![p] = d]
             /\ NoteHazard(p, d)
    /\ UNCHANGED <<server, sentinel, artifact, tmpdirs, made, pre, prev>>

\* temp_path = Path(tempfile.mkdtemp()); zipfile.ZipFile(...).extractall(temp_path)
Unzip(p) ==
    /\ Stmt(calls[p]) = "extractall"
    /\ \E layout \in Layouts :
         LET c == [calls[p] EXCEPT !.temp_path = made + 1, !.extracted = layout]
             d == IF layout = "not_a_zip" THEN Raise(c, "bad_zip_file") ELSE Advance(c)
         IN  /\ calls' = [calls EXCEPT ![p] = d]
             /\ NoteHazard(p, d)
    /\ made' = made + 1
    /\ tmpdirs' = tmpdirs \cup {made + 1}
    /\ UNCHANGED <<server, sentinel, artifact, pre, prev>>

\* os.rename(archive_driver_fp, driver_dest_fp): the source is
\* <temp>/chromedriver-<platform>/<filename>, present only in the nested layout.
MoveDriver(p) ==
    /\ Stmt(calls[p]) = "rename"
    /\ \E ok \in BOOLEAN :
         LET c     == calls[p]
             moved == c.extracted = "nested" /\ ok
             d     == IF moved
                      THEN Advance([c EXCEPT !.extracted = "moved"])
                      ELSE Raise(c, "os_error")
         IN  /\ artifact' = IF moved
                            THEN File([ver |-> Served(c.driver_url), mode |-> "extracted"])
                            ELSE artifact
             /\ calls' = [calls EXCEPT ![p] = d]
             /\ NoteHazard(p, d)
    /\ UNCHANGED <<server, sentinel, tmpdirs, made, pre, prev>>

\* self.__remove_files_and_dir(temp_path): never raises
RemoveTemp(p) ==
    /\ Stmt(calls[p]) = "remove_files_and_dir"
    /\ LET c == calls[p]
           d == Advance(c)
       IN  /\ tmpdirs' = IF remove_files_and_dir(c.extracted)
                         THEN tmpdirs \ {c.temp_path}
                         ELSE tmpdirs
           /\ calls' = [calls EXCEPT ![p] = d]
           /\ NoteHazard(p, d)
    /\ UNCHANGED <<server, sentinel, artifact, made, pre, prev>>

\* self.__give_file_execute_permissions(driver_dest_fp): os.chmod(fp, 0o755)
GiveExecutePermissions(p) ==
    /\ Stmt(calls[p]) = "give_file_execute_permissions"
    /\ \E ok \in BOOLEAN :
         LET c     == calls[p]
             done  == artifact # NoFile /\ ok
             d     == IF done THEN Advance(c) ELSE Raise(c, "os_error")
         IN  /\ artifact' = IF done
                            THEN File([Content(artifact) EXCEPT !.mode = "0755"])
                            ELSE artifact
             /\ calls' = [calls EXCEPT ![p] = d]
             /\ NoteHazard(p, d)
    /\ UNCHANGED <<server, sentinel, tmpdirs, made, pre, prev>>

\* self.__write_version_to_file(version_number): open(.., 'w') may fail and
\* leave the file alone, or the write may fail after the file was truncated.
WriteVersionToFile(p) ==
    /\ Stmt(calls[p]) = "write_version_to_file"
    /\ \E outcome \in {"ok", "open_failed", "write_failed"} :
         LET c == calls[p]
             d == IF outcome = "ok" THEN Advance(c) ELSE Raise(c, "os_error")
         IN  /\ sentinel' = CASE outcome = "ok" ->
                                   write_version_to_file(sentinel, c.version.version)
                              [] outcome = "open_failed" -> sentinel
                              [] OTHER -> File(Partial)
             /\ calls' = [calls EXCEPT ![p] = d]
             /\ NoteHazard(p, d)
    /\ UNCHANGED <<server, artifact, tmpdirs, made, pre, prev>>

\* Upstream publishes another manifest.
Publish ==
    /\ \E m \in Manifests : m # server /\ server' = m
    /\ UNCHANGED <<sentinel, artifact, tmpdirs, made, calls, pre, prev, hazard>>

\* The statements of a call in progress.
Run(p) ==
    \/ GetVersionFromChannel(p)
    \/ GetDriverForPlatform(p)
    \/ CheckOutdated(p)
    \/ RemoveLocalDriverFile(p)
    \/ DownloadRequest(p)
    \/ Unzip(p)
    \/ MoveDriver(p)
    \/ RemoveTemp(p)
    \/ GiveExecutePermissions(p)
    \/ WriteVersionToFile(p)

\* One instance, used sequentially, called any number of times.
Next ==
    \/ Publish
    \/ \E p \in SeqProcs : Enter(p) \/ Run(p)

Spec == Init /\ [][Next]_vars

\* Two invocations against the same destination, one per caller, their
\* steps interleaved in any order.
NextConc ==
    \/ Publish
    \/ \E p \in ConcProcs : (calls[p].result = "none" /\ Enter(p)) \/ Run(p)

SpecConc == Init /\ [][NextConc]_vars

-----------------------------------------------------------------------------
(* Vocabulary of the properties *)

\* The caller's latest call has returned or raised.
Finished(p) == calls[p].pc = 0 /\ calls[p].result # "none"

Quiescent(procs) == \A p \in procs : ~InCall(p)

\* The version string the latest call read from the manifest.
Target(p) == calls[p].version.version

\* The latest call issued a request to a download url.
Downloaded(c) == \E i \in DOMAIN c.requests : c.requests[i][1] = "driver"

\* The installed driver of version v, executable.
Installed(v) == File([ver |-> v, mode |-> "0755"])

\* Statement a was completed before statement b in the call's log.
Before(log, a, b) ==
    \E i, j \in DOMAIN log : i < j /\ log[i] = a /\ log[j] = b

\* The sentinel names a version the destination does not hold.
Drift ==
    /\ sentinel # NoFile
    /\ \/ artifact = NoFile
       \/ Content(artifact).ver # Content(sentinel)

\* The call failed before the outdated check, in one of the four ways of
\* __make_request, __make_request_json, __get_version_from_channel and
\* __get_driver_for_platform.
FailedEarly(c) ==
    /\ c.result = "raised"
    /\ \/ /\ c.raised_at = "get_version_from_channel"
          /\ c.error \in {"status_code_not_equals_200", "fail_to_make_json",
                          "channel_not_found"}
       \/ c.error = "build_for_platform_not_found"

DestinationUntouched ==
    /\ sentinel = pre.sentinel
    /\ artifact = pre.artifact
    /\ tmpdirs = pre.tmpdirs

-----------------------------------------------------------------------------
(* C1 *)

\* C1: an outdated call in which nothing fails returns new_version_downloaded;
\* the next call of the same caller, reading the same manifest and not
\* failing, returns update_not_required and leaves the driver and the
\* sentinel exactly as the first call left them (pre is the destination at
\* the start of the second call, which nothing touched since the first ended).
C1_Idempotence ==
    \A p \in SeqProcs :
        LET c == calls[p]
        IN  /\ (Finished(p) /\ c.outdated = "yes" /\ c.result # "raised")
                  => c.result = "new_version_downloaded"
            /\ ( /\ Finished(p)
                 /\ prev.result = "new_version_downloaded"
                 /\ c.version = prev.version
                 /\ c.result # "raised" )
                  => /\ c.result = "update_not_required"
                     /\ sentinel = pre.sentinel
                     /\ artifact = pre.artifact

C1_Witness ==
    \E p \in SeqProcs :
        /\ Finished(p)
        /\ prev.result = "new_version_downloaded"
        /\ prev.outdated = "yes"
        /\ calls[p].version = prev.version
        /\ calls[p].result = "update_not_required"
        /\ artifact = Installed(Target(p))
        /\ sentinel = File(Target(p))

-----------------------------------------------------------------------------
(* C2 *)

\* C2: between calls of download_or_update, whenever the sentinel exists its
\* content is the version of the driver present in the destination.
C2_SentinelMatchesArtifact ==
    Quiescent(SeqProcs) => ~Drift

-----------------------------------------------------------------------------
(* C3 *)

\* C3: when the sentinel exists and holds the manifest's version (and the
\* platform has a download entry), the call returns update_not_required after
\* exactly one request, the manifest fetch, makes no temporary directory and
\* leaves driver, mode and sentinel unchanged.
C3_ExactMatchSkips ==
    \A p \in SeqProcs :
        LET c == calls[p]
        IN  ( /\ Finished(p)
              /\ c.driver_url # NoUrl
              /\ pre.sentinel = File(Target(p)) )
              => /\ c.result = "update_not_required"
                 /\ c.requests = <<versions_url>>
                 /\ c.temp_path = 0
                 /\ DestinationUntouched

C3_Witness ==
    \E p \in SeqProcs :
        /\ Finished(p)
        /\ calls[p].driver_url # NoUrl
        /\ pre.sentinel = File(Target(p))
        /\ pre.artifact # NoFile
        /\ calls[p].result = "update_not_required"

-----------------------------------------------------------------------------
(* C4 *)

\* C4: a call that fails on the manifest status, the JSON decoding, the
\* channel lookup or the platform lookup has raised, has issued no download
\* request and has left driver, sentinel and temporary directories as they
\* were, outdated or not.
C4_EarlyFailureNoEffects ==
    \A p \in SeqProcs :
        LET c == calls[p]
        IN  (Finished(p) /\ FailedEarly(c))
              => /\ ~Downloaded(c)
                 /\ c.temp_path = 0
                 /\ DestinationUntouched

C4_Witness ==
    \E p \in SeqProcs :
        /\ Finished(p)
        /\ calls[p].error = "build_for_platform_not_found"
        /\ pre.artifact # NoFile
        /\ installed_version_is_outdated(pre.sentinel, Target(p))

-----------------------------------------------------------------------------
(* C5 *)

\* C5 as stated: a finished call that began with no sentinel file has issued
\* the download request, whatever the manifest held.
C5_NoSentinelAlwaysDownloads ==
    \A p \in SeqProcs :
        (Finished(p) /\ pre.sentinel = NoFile) => Downloaded(calls[p])

\* C5 amended: a call that began with no sentinel file and resolved the
\* manifest (status 200, JSON, channel and platform found) is judged outdated
\* whatever version the manifest reports, never returns update_not_required,
\* and has issued the download request once it ends, unless removing an
\* existing driver raised.
C5_NoSentinelOutdated ==
    \A p \in SeqProcs :
        LET c == calls[p]
        IN  (pre.sentinel = NoFile /\ c.driver_url # NoUrl)
              => /\ c.outdated # "no"
                 /\ c.result # "update_not_required"
                 /\ (Finished(p) /\ c.raised_at # "remove_local_driver_file")
                       => Downloaded(c)

C5_Witness ==
    \E p \in SeqProcs :
        /\ Finished(p)
        /\ pre.sentinel = NoFile
        /\ pre.artifact # NoFile
        /\ calls[p].outdated = "yes"
        /\ Downloaded(calls[p])

-----------------------------------------------------------------------------
(* C6 *)

\* C6: a call judged outdated removes the old driver, then downloads, then
\* places the new driver, then writes the sentinel; it returns
\* new_version_downloaded only with the target's driver installed and the
\* sentinel equal to the target; and at no point of the call does the
\* sentinel hold the target while the target's driver is not in place.
C6_ReplaceSentinelLast ==
    \A p \in SeqProcs :
        LET c == calls[p]
        IN  /\ (Finished(p) /\ c.result = "new_version_downloaded")
                  => /\ artifact = Installed(Target(p))
                     /\ sentinel = File(Target(p))
                     /\ Before(c.log, "remove_local_driver_file", "make_request")
                     /\ Before(c.log, "make_request", "rename")
                     /\ Before(c.log, "rename", "write_version_to_file")
            /\ (c.outdated = "yes" /\ sentinel = File(Target(p)))
                  => /\ artifact # NoFile
                     /\ Content(artifact).ver = Target(p)

C6_Witness ==
    \E p \in SeqProcs :
        /\ Finished(p)
        /\ calls[p].result = "new_version_downloaded"
        /\ pre.sentinel # NoFile
        /\ pre.sentinel # File(Target(p))
        /\ pre.artifact # NoFile
        /\ sentinel = File(Target(p))

-----------------------------------------------------------------------------
(* C7 *)

\* C7: after a call that returned new_version_downloaded, the temporary
\* directory made for that call no longer exists.
C7_TempDirRemoved ==
    \A p \in SeqProcs :
        (Finished(p) /\ calls[p].result = "new_version_downloaded")
          => calls[p].temp_path \notin tmpdirs

-----------------------------------------------------------------------------
(* C8 *)

\* C8: with two invocations running against one destination, the sentinel can
\* end up naming a version the destination does not hold although no step of
\* either call failed (C8_Witness, reached by interleaving alone); and a
\* drifted state between calls has no other cause than the overlap of two
\* calls or a call that raised after its outdated check.
C8_DriftNeedsOverlapOrFailure ==
    (Quiescent(ConcProcs) /\ Drift) => (hazard.overlap \/ hazard.failure)

C8_Witness ==
    /\ \A p \in ConcProcs :
          Finished(p) /\ calls[p].result = "new_version_downloaded"
    /\ hazard.overlap
    /\ ~hazard.failure
    /\ Drift

-----------------------------------------------------------------------------
(* C9 *)

\* C9: every call that returns update_not_required returns with the driver
\* of the version the manifest reports present in the destination.
C9_NotRequiredImpliesInstalled ==
    \A p \in SeqProcs :
        (Finished(p) /\ calls[p].result = "update_not_required")
          => /\ artifact # NoFile
             /\ Content(artifact).ver = Target(p)

-----------------------------------------------------------------------------
(* C10 *)

\* C10: after a call that was judged outdated and then raised, the next call
\* reading the same manifest is judged outdated again and never returns
\* update_not_required; if nothing fails in it, it returns
\* new_version_downloaded with the target's driver installed and the sentinel
\* equal to the target.
C10_RetryRecovers ==
    \A p \in SeqProcs :
        LET c == calls[p]
        IN  ( /\ prev.result = "raised"
              /\ prev.outdated = "yes"
              /\ c.version = prev.version )
              => /\ c.outdated # "no"
                 /\ c.result # "update_not_required"
                 /\ (Finished(p) /\ c.result # "raised")
                       => /\ c.result = "new_version_downloaded"
                          /\ artifact = Installed(Target(p))
                          /\ sentinel = File(Target(p))

C10_Witness ==
    \E p \in SeqProcs :
        /\ prev.result = "raised"
        /\ prev.outdated = "yes"
        /\ calls[p].version = prev.version
        /\ pre.artifact = NoFile
        /\ pre.sentinel # NoFile
        /\ Finished(p)
        /\ calls[p].result = "new_version_downloaded"

====
